---- MODULE Spec2Model ----
(***************************************************************************)
(* Model of capture.c: a single-threaded V4L2 still-image capture.  The    *)
(* process walks open -> init_device -> init_mmap -> start_capturing ->    *)
(* main_loop -> stop_capturing -> uninit_mmap -> close_device; the kernel  *)
(* and the C library are the environment, and every call they serve picks  *)
(* its outcome nondeterministically.                                       *)
(***************************************************************************)
EXTENDS Integers, Sequences, FiniteSets, TLC

(* ---- bounds of the model ---- *)
MaxWaits == 3       \* the count of select() calls saturates here
MaxCalls == 6       \* the count of DQBUF calls saturates here
MaxBytes == 2       \* largest buffer length the driver reports

(* ---- constants of the program and of the kernel interface ---- *)
STORE_AFTER_X_FRAMES == 5
LoopCount == 70
EINTR == 4
EAGAIN == 11

\* the errno values a failing call may leave: the two the program tests
\* for, and one that stands for all the others (EIO)
Errnos == {EINTR, EAGAIN, 5}

CallNames == {"open", "QUERYCAP", "S_FMT", "REQBUFS", "QUERYBUF", "mmap",
              "QBUF", "STREAMON", "select", "DQBUF", "fopen", "fwrite",
              "fclose", "STREAMOFF", "munmap", "close"}

VARIABLES
    pc,               \* the function main is about to call, or "exited"
    unwinding,        \* main is on one of its failure branches (will return -1)
    ret,              \* the value main returned, once pc = "exited"
    _fd,              \* static int _fd
    _buffer,          \* static void* _buffer: "NULL", "MAP_FAILED" or "addr"
    _len_buff,        \* static unsigned int _len_buff
    frames_received,  \* static int frames_received
    count,            \* main_loop's local safety counter
    errno,            \* the C library's errno
    fdOpen,           \* kernel: the descriptor is open
    mapped,           \* kernel: the buffer is mapped in the process
    streaming,        \* kernel: the capture stream is on
    owner,            \* kernel: who owns buffer 0, "app" or "driver"
    fileBytes,        \* length of frame.jpg, -1 while it does not exist
    calls,            \* history: how often each call was issued
    dequeued,         \* history: number of DQBUF calls that succeeded
    bytesused,        \* history: bytesused of the selected dequeue
    faults,           \* history: the calls and checks that failed
    last              \* history: the calls issued by the latest step, in order

vars == <<pc, unwinding, ret, _fd, _buffer, _len_buff, frames_received, count,
          errno, fdOpen, mapped, streaming, owner, fileBytes, calls, dequeued,
          bytesused, faults, last>>

progVars == <<_fd, _buffer, _len_buff, frames_received, count>>
kernVars == <<fdOpen, mapped, streaming, owner, fileBytes>>

Min(a, b) == IF a < b THEN a ELSE b

Cap(c) == IF c = "select" THEN MaxWaits ELSE MaxCalls

\* one issued call: its name, its return value and the errno it left
Call(c, r, e) == [call |-> c, ret |-> r, err |-> e]

RECURSIVE Count(_, _)
Count(cs, log) ==
    IF log = <<>> THEN cs
    ELSE Count([cs EXCEPT ![Head(log).call] = Min(@ + 1, Cap(Head(log).call))],
               Tail(log))

\* a system call with outcome o: 0 for success, else the errno of its failure
Sys(c, o) == Call(c, IF o = 0 THEN 0 ELSE -1, o)

\* the two failures the program treats as transient
Transient(k) ==
    \/ k.call = "DQBUF" /\ k.err = EAGAIN
    \/ k.call = "select" /\ k.err = EINTR

\* the names of the calls of a log that failed for good
Failed(log) ==
    {log[i].call : i \in {j \in 1..Len(log) :
                            log[j].ret < 0 /\ ~Transient(log[j])}}

\* errno after a log of calls: the errno of the last failing call, if any
ErrnoAfter(e0, log) ==
    LET bad == {j \in 1..Len(log) : log[j].ret < 0}
    IN  IF bad = {} THEN e0
        ELSE log[CHOOSE j \in bad : \A k \in bad : k <= j].err

\* who owns buffer 0 after a log of calls, when own owned it before: a
\* successful QBUF hands it to the driver, a successful DQBUF to the application
RECURSIVE OwnerAfter(_, _)
OwnerAfter(own, log) ==
    IF log = <<>> THEN own
    ELSE LET k == Head(log)
             next == IF k.ret # 0 THEN own
                     ELSE IF k.call = "QBUF" THEN "driver"
                     ELSE IF k.call = "DQBUF" THEN "app"
                     ELSE own
         IN  OwnerAfter(next, Tail(log))

Results == {0} \cup Errnos
Caps == {"VIDEO_CAPTURE", "STREAMING"}

Init ==
    /\ pc = "open_device"
    /\ unwinding = FALSE
    /\ ret = 0
    /\ _fd = 0
    /\ _buffer = "NULL"
    /\ _len_buff = 0
    /\ frames_received = 0
    /\ count = LoopCount
    /\ errno = 0
    /\ fdOpen = FALSE
    /\ mapped = FALSE
    /\ streaming = FALSE
    /\ owner = "app"
    /\ fileBytes = -1
    /\ calls = [c \in CallNames |-> 0]
    /\ dequeued = 0
    /\ bytesused = 0
    /\ faults = {}
    /\ last = <<>>

\* bookkeeping shared by all steps: the step issued the calls of log
Issue(log, extraFaults) ==
    /\ last' = log
    /\ calls' = Count(calls, log)
    /\ errno' = ErrnoAfter(errno, log)
    /\ faults' = faults \cup Failed(log) \cup extraFaults

\* main returns v
Exit(v) ==
    /\ pc' = "exited"
    /\ ret' = v

(* ---- open_device, and main line 255 ---- *)
open_device ==
    /\ pc = "open_device"
    /\ \/ /\ _fd' = 3
          /\ fdOpen' = TRUE
          /\ Issue(<<Call("open", 3, 0)>>, {})
          /\ pc' = "init_device"
          /\ UNCHANGED <<ret, unwinding>>
       \/ \E e \in Errnos :
          /\ _fd' = -1
          /\ fdOpen' = FALSE
          /\ Issue(<<Call("open", -1, e)>>, {})
          /\ unwinding' = TRUE
          /\ Exit(-1)
    /\ UNCHANGED <<_buffer, _len_buff, frames_received, count, mapped,
                   streaming, owner, fileBytes, dequeued, bytesused>>

(* ---- main's failure branches: lines 257-283 ---- *)
\* a main that returns -1 at once, without tearing down
MainStep_returns_at_once(rv, f, g) ==
    /\ pc' = IF rv # 0 THEN "exited" ELSE f
    /\ unwinding' = (unwinding \/ rv # 0)
    /\ ret' = IF rv # 0 THEN -1 ELSE ret

\* main goes on to function f after a call that returned rv, or starts
\* tearing down at function g when rv is not zero
MainStep(rv, f, g) ==
    /\ pc' = IF rv # 0 THEN g ELSE f
    /\ unwinding' = (unwinding \/ rv # 0)
    /\ UNCHANGED ret

(* ---- init_device, and main lines 257-260 ---- *)
\* an init_device that does not test the streaming capability
init_device_ret_capture_only(qc, caps, sf, e) ==
    IF qc # 0 THEN e
    ELSE IF "VIDEO_CAPTURE" \notin caps THEN -1
    ELSE IF sf # 0 THEN e
    ELSE 0

init_device_ret(qc, caps, sf, e) ==
    IF qc # 0 THEN e
    ELSE IF "VIDEO_CAPTURE" \notin caps THEN -1
    ELSE IF "STREAMING" \notin caps THEN -1
    ELSE IF sf # 0 THEN e
    ELSE 0

init_device ==
    /\ pc = "init_device"
    /\ \E qc \in Results, caps \in SUBSET Caps, sf \in Results :
          LET log == IF qc # 0 THEN <<Sys("QUERYCAP", qc)>>
                     ELSE IF caps # Caps THEN <<Sys("QUERYCAP", 0)>>
                     ELSE <<Sys("QUERYCAP", 0), Sys("S_FMT", sf)>>
              unsupported == IF qc = 0 /\ caps # Caps THEN {"caps"} ELSE {}
          IN  /\ Issue(log, unsupported)
              /\ MainStep(init_device_ret(qc, caps, sf, errno'),
                          "init_mmap", "close_device")
    /\ UNCHANGED <<progVars, kernVars, dequeued, bytesused>>

(* ---- init_mmap, and main lines 262-265 ---- *)
\* an init_mmap that does not compare mmap's result with MAP_FAILED
init_mmap_ret_unchecked_mmap(rb, qb, mm, e) ==
    IF rb # 0 THEN e
    ELSE IF qb # 0 THEN e
    ELSE 0

init_mmap_ret(rb, qb, mm, e) ==
    IF rb # 0 THEN e
    ELSE IF qb # 0 THEN e
    ELSE IF mm # 0 THEN e
    ELSE 0

\* granted: the count REQBUFS writes back into req; the program asked for 1
\* and never reads it.  A driver that granted no buffer has no buffer 0 to
\* describe, so its QUERYBUF fails.
init_mmap ==
    /\ pc = "init_mmap"
    /\ \E rb \in Results, granted \in 0..1, qb \in Results, mm \in Results,
          len \in 1..MaxBytes :
          LET log == IF rb # 0 THEN <<Sys("REQBUFS", rb)>>
                     ELSE IF qb # 0 THEN <<Sys("REQBUFS", 0), Sys("QUERYBUF", qb)>>
                     ELSE <<Sys("REQBUFS", 0), Sys("QUERYBUF", 0), Sys("mmap", mm)>>
              queried == rb = 0 /\ qb = 0
              refused == IF rb = 0 /\ granted = 0 THEN {"no_buffers"} ELSE {}
          IN  /\ (rb = 0 /\ granted = 0) => qb # 0
              /\ Issue(log, refused)
              /\ _len_buff' = IF queried THEN len ELSE _len_buff
              /\ _buffer' = IF ~queried THEN _buffer
                            ELSE IF mm = 0 THEN "addr" ELSE "MAP_FAILED"
              /\ mapped' = (queried /\ mm = 0)
              /\ MainStep(init_mmap_ret(rb, qb, mm, errno'),
                          "start_capturing", "close_device")
    /\ UNCHANGED <<_fd, frames_received, count, fdOpen, streaming, owner,
                   fileBytes, dequeued, bytesused>>

(* ---- start_capturing, and main lines 267-271 ---- *)
start_capturing_ret(q, so, e) ==
    IF q # 0 THEN e
    ELSE IF so # 0 THEN e
    ELSE 0

\* a start_capturing that goes on to STREAMON after a failed QBUF
start_capturing_log_unchecked_qbuf(q, so) ==
    <<Sys("QBUF", q), Sys("STREAMON", so)>>

\* the calls start_capturing issues
start_capturing_log(q, so) ==
    IF q # 0 THEN <<Sys("QBUF", q)>>
    ELSE <<Sys("QBUF", 0), Sys("STREAMON", so)>>

start_capturing ==
    /\ pc = "start_capturing"
    /\ \E q \in Results, so \in Results :
          LET log == start_capturing_log(q, so)
          IN  /\ Issue(log, {})
              /\ owner' = OwnerAfter(owner, log)
              /\ streaming' = (q = 0 /\ so = 0)
              /\ MainStep(start_capturing_ret(q, so, errno'),
                          "main_loop", "uninit_mmap")
    /\ UNCHANGED <<progVars, fdOpen, mapped, fileBytes, dequeued, bytesused>>

(* ---- main_loop: entering the outer loop, lines 185-186 ---- *)
\* a main_loop whose waits go back to the test of the outer loop
main_loop_counts_waits ==
    /\ pc \in {"main_loop", "select"}
    /\ count > 0
    /\ count' = (IF pc = "main_loop" THEN LoopCount ELSE count) - 1
    /\ pc' = "select"
    /\ Issue(<<>>, {})
    /\ UNCHANGED <<unwinding, ret, _fd, _buffer, _len_buff, frames_received,
                   kernVars, dequeued, bytesused>>

main_loop ==
    /\ pc = "main_loop"
    /\ count' = LoopCount - 1
    /\ pc' = "select"
    /\ Issue(<<>>, {})
    /\ UNCHANGED <<unwinding, ret, _fd, _buffer, _len_buff, frames_received,
                   kernVars, dequeued, bytesused>>

(* ---- main_loop: one readiness wait, lines 187-211 and 217, and ---- *)
(* ---- main lines 273-277                                         ---- *)
\* r is select's return value: 1 ready, 0 timed out, -1 failed; e is errno
\* after the call.  The wait is repeated on EINTR.
select_again_on_eagain(r, e) == r = -1 /\ e = EAGAIN

select_again(r, e) == r = -1 /\ e = EINTR

\* the value main_loop returns from its two return statements in the wait
main_loop_ret(r, e) == e

select_wait(r, o) ==
    /\ pc = "select"
    /\ LET log == <<Call("select", r, IF r = -1 THEN o ELSE 0)>>
           timeout == IF r = 0 THEN {"timeout"} ELSE {}
       IN  /\ Issue(log, timeout)
           /\ IF select_again(r, errno')
                 THEN pc' = "select" /\ UNCHANGED <<unwinding, ret>>
              ELSE IF r <= 0
                 THEN MainStep(main_loop_ret(r, errno'),
                               "stop_capturing", "uninit_mmap")
              ELSE pc' = "read_frame" /\ UNCHANGED <<unwinding, ret>>
    /\ UNCHANGED <<progVars, kernVars, dequeued, bytesused>>

(* ---- process_image, lines 141-153 ---- *)
\* fo: outcome of fopen; w: bytes fwrite gets into the file out of size;
\* fc: outcome of fclose
process_image_log(size, fo, w, fc) ==
    IF fo # 0 THEN <<Sys("fopen", fo)>>
    ELSE <<Sys("fopen", 0),
           Call("fwrite", IF w = size /\ size > 0 THEN 1 ELSE 0, 0),
           Sys("fclose", fc)>>

process_image_ret(fo) == IF fo # 0 THEN -1 ELSE 0

(* ---- read_frame, lines 155-181, with main_loop lines 213-217 ---- *)
\* frames_received after a DQBUF with outcome dq, line 168
frames_after_counting_every_dqbuf(dq, fr) == fr + 1

frames_after(dq, fr) == IF dq = 0 THEN fr + 1 ELSE fr

\* a read_frame that re-enqueues the stored frame and goes on
read_frame_ret_no_stop(dq, q, n, e) ==
    IF dq # 0 THEN (IF e = EAGAIN THEN 0 ELSE e)
    ELSE IF n = STORE_AFTER_X_FRAMES THEN 0
    ELSE IF q # 0 THEN e
    ELSE 0

\* a read_frame that ends the loop one frame early
read_frame_ret_stops_early(dq, q, n, e) ==
    IF dq # 0 THEN (IF e = EAGAIN THEN 0 ELSE e)
    ELSE IF n >= STORE_AFTER_X_FRAMES - 1 THEN 1
    ELSE IF q # 0 THEN e
    ELSE 0

\* n is frames_received after a successful dequeue, e is errno after the calls
read_frame_ret(dq, q, n, e) ==
    IF dq # 0 THEN (IF e = EAGAIN THEN 0 ELSE e)
    ELSE IF n = STORE_AFTER_X_FRAMES THEN 1
    ELSE IF q # 0 THEN e
    ELSE 0

\* a read_frame that hands the buffer back before it stores the frame
read_frame_log_requeue_first(dq, q, n, img) ==
    IF dq # 0 THEN <<Sys("DQBUF", dq)>>
    ELSE IF n = STORE_AFTER_X_FRAMES
       THEN <<Sys("DQBUF", 0), Sys("QBUF", q)>> \o img
    ELSE <<Sys("DQBUF", 0), Sys("QBUF", q)>>

\* a read_frame that re-enqueues also when the dequeue failed
read_frame_log_requeue_always(dq, q, n, img) ==
    IF dq # 0 THEN <<Sys("DQBUF", dq), Sys("QBUF", q)>>
    ELSE IF n = STORE_AFTER_X_FRAMES THEN <<Sys("DQBUF", 0)>> \o img
    ELSE <<Sys("DQBUF", 0), Sys("QBUF", q)>>

\* the calls read_frame issues; img is the log of process_image
read_frame_log(dq, q, n, img) ==
    IF dq # 0 THEN <<Sys("DQBUF", dq)>>
    ELSE IF n = STORE_AFTER_X_FRAMES THEN <<Sys("DQBUF", 0)>> \o img
    ELSE <<Sys("DQBUF", 0), Sys("QBUF", q)>>

read_frame(dq, q, bu, fo, w, fc) ==
    /\ pc = "read_frame"
    /\ dq = 0 => (owner = "driver" /\ streaming)
    /\ bu <= _len_buff
    /\ w <= bu
    /\ LET n == frames_received + 1
           store == dq = 0 /\ n = STORE_AFTER_X_FRAMES
           requeue == dq = 0 /\ n # STORE_AFTER_X_FRAMES
           log == read_frame_log(dq, q, n, process_image_log(bu, fo, w, fc))
           extra == (IF requeue /\ q # 0 THEN {"requeue"} ELSE {})
                    \cup (IF store /\ fo = 0 /\ w < bu THEN {"short_write"} ELSE {})
       IN  /\ Issue(log, extra)
           /\ frames_received' = frames_after(dq, frames_received)
           /\ dequeued' = IF dq = 0 THEN dequeued + 1 ELSE dequeued
           /\ bytesused' = IF store THEN bu ELSE bytesused
           /\ owner' = OwnerAfter(owner, log)
           /\ fileBytes' = IF store /\ fo = 0 THEN w ELSE fileBytes
           /\ IF read_frame_ret(dq, q, n, errno') # 0
                 THEN MainStep(0, "stop_capturing", "uninit_mmap")
                 ELSE pc' = "select" /\ UNCHANGED <<unwinding, ret>>
    /\ UNCHANGED <<_fd, _buffer, _len_buff, count, fdOpen, mapped, streaming>>

(* ---- stop_capturing, lines 221-230, and main lines 279-283 ---- *)
stop_capturing_ret(o) == IF o # 0 THEN -1 ELSE 0

\* ty is the value found in the uninitialised local "type"; the driver
\* rejects every value but VIDEO_CAPTURE
stop_capturing(ty, o) ==
    /\ pc = "stop_capturing"
    /\ ty # "VIDEO_CAPTURE" => o # 0
    /\ Issue(<<Sys("STREAMOFF", o)>>, {})
    /\ streaming' = IF o = 0 THEN FALSE ELSE streaming
    /\ MainStep(stop_capturing_ret(o), "uninit_mmap", "uninit_mmap")
    /\ UNCHANGED <<progVars, fdOpen, mapped, owner, fileBytes, dequeued,
                   bytesused>>

(* ---- uninit_mmap, lines 232-241, and main lines 268-287 ---- *)
uninit_mmap_ret(o) == IF o # 0 THEN -1 ELSE 0

uninit_mmap(o) ==
    /\ pc = "uninit_mmap"
    /\ Issue(<<Sys("munmap", o)>>, {})
    /\ mapped' = IF o = 0 THEN FALSE ELSE mapped
    /\ _buffer' = IF o = 0 THEN "NULL" ELSE _buffer
    /\ IF unwinding
          THEN pc' = "close_device" /\ UNCHANGED <<unwinding, ret>>
          ELSE MainStep(uninit_mmap_ret(o), "close_device", "close_device")
    /\ UNCHANGED <<_fd, _len_buff, frames_received, count, fdOpen, streaming,
                   owner, fileBytes, dequeued, bytesused>>

(* ---- close_device, lines 243-251, and main lines 258-291 ---- *)
close_device_ret(o) == IF o # 0 THEN -1 ELSE 0

\* a close_device that calls close again after a failure
close_device_retries(o, released) ==
    /\ pc = "close_device"
    /\ o = 0 => released
    /\ Issue(<<Sys("close", o)>>, {})
    /\ fdOpen' = ~released
    /\ streaming' = IF released THEN FALSE ELSE streaming
    /\ IF o # 0 THEN pc' = "close_device" /\ UNCHANGED ret
       ELSE IF unwinding THEN Exit(-1)
       ELSE Exit(0)
    /\ UNCHANGED <<unwinding, progVars, mapped, owner, fileBytes, dequeued,
                   bytesused>>

\* released: whether the kernel let go of the descriptor; it always does
\* when close succeeds
close_device(o, released) ==
    /\ pc = "close_device"
    /\ o = 0 => released
    /\ Issue(<<Sys("close", o)>>, {})
    /\ fdOpen' = ~released
    /\ streaming' = IF released THEN FALSE ELSE streaming
    /\ IF unwinding THEN Exit(-1)
       ELSE IF close_device_ret(o) # 0 THEN Exit(-1)
       ELSE Exit(0)
    /\ UNCHANGED <<unwinding, progVars, mapped, owner, fileBytes, dequeued,
                   bytesused>>

SelectResults == {-1, 0, 1}
TypeValues == {"VIDEO_CAPTURE", "garbage"}

Next ==
    \/ open_device
    \/ init_device
    \/ init_mmap
    \/ start_capturing
    \/ main_loop
    \/ \E r \in SelectResults, e \in Errnos : select_wait(r, e)
    \/ \E dq \in Results, q \in Results, bu \in 0..MaxBytes, fo \in Results,
          w \in 0..MaxBytes, fc \in Results : read_frame(dq, q, bu, fo, w, fc)
    \/ \E ty \in TypeValues, o \in Results : stop_capturing(ty, o)
    \/ \E o \in Results : uninit_mmap(o)
    \/ \E o \in Results, released \in BOOLEAN : close_device(o, released)

Spec == Init /\ [][Next]_vars

\* the driver's part of the happy path: the descriptor becomes readable and
\* the dequeue, the re-enqueue and the write of the file succeed
SelectReady == \E e \in Errnos : select_wait(1, e)
FrameDelivered == \E bu \in 0..MaxBytes : read_frame(0, 0, bu, 0, bu, 0)

\* the process keeps running; nothing is assumed of the driver
LiveSpec == Spec /\ WF_vars(Next)

\* the process keeps running and the driver keeps delivering frames
FairSpec == Spec /\ WF_vars(Next) /\ SF_vars(SelectReady) /\ SF_vars(FrameDelivered)

(* ---- state predicates shared by the properties ---- *)
Exited == pc = "exited"
OpenSucceeded == calls["open"] = 1 /\ "open" \notin faults
MmapSucceeded == calls["mmap"] = 1 /\ "mmap" \notin faults
StreamOnSucceeded == calls["STREAMON"] = 1 /\ "STREAMON" \notin faults
FrameStored == fileBytes >= 0 /\ fileBytes = bytesused
TornDown == calls["STREAMOFF"] = 1 /\ calls["munmap"] = 1 /\ calls["close"] = 1

(* ---- C1 ---- *)
\* C1: close_device is called at most once; a run whose open succeeded has
\* called it exactly once when main returns, whatever failed in between, and
\* a run whose open failed never calls it.
C1_CloseOncePerOpen ==
    /\ calls["close"] <= 1
    /\ ~OpenSucceeded => calls["close"] = 0
    /\ (Exited /\ OpenSucceeded) => calls["close"] = 1

\* a run that failed after open and still closed the descriptor
C1_Witness ==
    /\ Exited
    /\ OpenSucceeded
    /\ faults # {}
    /\ ret = -1
    /\ calls["close"] = 1

(* ---- C2 ---- *)
\* C2: munmap is called exactly once in a run whose mmap succeeded, and that
\* call precedes close (once close has been called, munmap has been too); a
\* run whose mmap was not attempted or failed never calls munmap.
C2_UnmapOncePerMmap ==
    /\ calls["munmap"] <= 1
    /\ ~MmapSucceeded => calls["munmap"] = 0
    /\ (MmapSucceeded /\ calls["close"] > 0) => calls["munmap"] = 1
    /\ (MmapSucceeded /\ Exited) => calls["munmap"] = 1

\* a run that mapped the buffer, failed later, and unmapped before closing
C2_Witness ==
    /\ pc = "close_device"
    /\ MmapSucceeded
    /\ unwinding
    /\ calls["munmap"] = 1
    /\ calls["close"] = 0

(* ---- C3 ---- *)
\* C3: after a successful STREAMON, teardown runs in reverse order: munmap
\* is called only after STREAMOFF, close only after munmap, and the stream is
\* not on when munmap or close is about to be called.
C3_ReverseTeardown ==
    StreamOnSucceeded =>
        /\ calls["munmap"] > 0 => calls["STREAMOFF"] > 0
        /\ calls["close"] > 0 => calls["munmap"] > 0
        /\ pc \in {"uninit_mmap", "close_device"} => ~streaming

(* ---- C4 ---- *)
\* what the happy path ends in: frame.jpg written at the 5th successful
\* dequeue, stream-off, unmap and close done, exit code 0, nothing left
HappyEnd ==
    /\ Exited
    /\ ret = 0
    /\ dequeued = STORE_AFTER_X_FRAMES
    /\ frames_received = STORE_AFTER_X_FRAMES
    /\ FrameStored
    /\ TornDown
    /\ ~mapped /\ ~fdOpen /\ ~streaming

\* C4: when the driver keeps delivering frames, a run in which no call fails
\* eventually ends as HappyEnd describes.
C4_HappyPath == <>(faults # {} \/ HappyEnd)

\* the happy end, reached after at least one would-block or interrupted wait
C4_Witness == HappyEnd /\ faults = {} /\ errno # 0

(* ---- C5 ---- *)
\* C5: a run that ends with exit code 0 has dequeued 5 frames and written
\* frame.jpg, and a run in which anything failed ends with a non-zero code.
C5_ExitCodeZeroOnlyOnSuccess ==
    Exited =>
        /\ ret = 0 => (dequeued = STORE_AFTER_X_FRAMES /\ FrameStored)
        /\ faults # {} => ret # 0

(* ---- C6 ---- *)
\* C6: a run in which frame.jpg could not be opened for writing performs
\* stream-off, unmap and close and ends with a non-zero exit code.
C6_PersistenceFault ==
    (Exited /\ "fopen" \in faults) => (TornDown /\ ret # 0)

(* ---- C7 ---- *)
\* C7: a DQBUF failure other than would-block, or a failure of the
\* re-enqueue, reaches main as a non-zero result of main_loop, and the run
\* ends with a non-zero exit code.
C7_LoopErrorsPropagate ==
    ("DQBUF" \in faults \/ "requeue" \in faults) =>
        /\ unwinding
        /\ Exited => ret # 0

(* ---- C8 ---- *)
\* C8: a readiness wait that times out makes main_loop report a failure,
\* whatever errno holds, and the run attempts stream-off, unmaps, closes
\* and ends with a non-zero exit code.
C8_TimeoutFails ==
    "timeout" \in faults =>
        /\ unwinding
        /\ Exited => (calls["STREAMOFF"] = 1 /\ calls["munmap"] = 1
                      /\ calls["close"] = 1 /\ ret # 0)

(* ---- C9 ---- *)
\* C9: main_loop always terminates: a run that entered the readiness loop
\* eventually leaves it, also when the driver keeps reporting would-block.
C9_LoopTerminates == (pc = "select") ~> (pc \notin {"select", "read_frame"})

(* ---- C10 ---- *)
WouldBlockStep == pc = "read_frame" /\ last' = <<Sys("DQBUF", EAGAIN)>>

HasCall(log, c) == \E i \in 1..Len(log) : log[i].call = c
InLoop(p) == p \in {"select", "read_frame"}
NoBufferGranted == "no_buffers" \in faults
InitialQbufFailed == "QBUF" \in faults /\ "requeue" \notin faults

(* ---- C11 ---- *)
\* C11: the write of frame.jpg is attempted at most once, in the step whose
\* successful dequeue makes the counter 5, and that step issues no QBUF and
\* ends the loop; a successful dequeue that leaves the counter below 5 is
\* followed by a QBUF and, when that succeeds, by the next wait; the counter
\* never exceeds 5.
C11_FrameSelection ==
    [][/\ HasCall(last', "fopen") =>
            /\ calls["fopen"] = 0
            /\ dequeued' = dequeued + 1
            /\ frames_received' = 5
            /\ ~HasCall(last', "QBUF")
            /\ InLoop(pc) /\ ~InLoop(pc')
       /\ (dequeued' = dequeued + 1 /\ frames_received' < 5) =>
            /\ Len(last') = 2
            /\ last'[1] = Sys("DQBUF", 0)
            /\ last'[2].call = "QBUF"
            /\ last'[2].ret = 0 => pc' = "select"
       /\ (dequeued' = dequeued + 1 /\ frames_received' = 5) =>
            HasCall(last', "fopen")
       /\ frames_received' <= 5]_vars

\* the 5th frame was dequeued after four re-enqueues and the write attempted
C11_Witness ==
    /\ pc = "stop_capturing"
    /\ frames_received = 5
    /\ HasCall(last, "fopen")
    /\ calls["QBUF"] = 5
    /\ calls["fopen"] = 1

(* ---- C12 ---- *)
\* C12: whenever process_image reads the mapped buffer (its fwrite), the
\* application owns buffer 0: a DQBUF succeeded earlier in the same call of
\* read_frame and no QBUF was issued since.
C12_ReadOnlyWhileOwned ==
    [][\A i \in 1..Len(last') :
          last'[i].call = "fwrite" =>
              /\ OwnerAfter(owner, SubSeq(last', 1, i - 1)) = "app"
              /\ last'[1] = Sys("DQBUF", 0)
              /\ ~HasCall(SubSeq(last', 1, i - 1), "QBUF")]_vars

\* the frame was read out of the buffer after the driver had owned it
C12_Witness ==
    /\ HasCall(last, "fwrite")
    /\ owner = "app"
    /\ dequeued = 5
    /\ fileBytes = 2

(* ---- C13 ---- *)
\* C13: when QUERYCAP succeeds but video-capture or streaming is missing,
\* init_device fails with QUERYCAP as its only call: none of S_FMT, REQBUFS,
\* QUERYBUF, mmap, QBUF, STREAMON is ever issued, close is performed and
\* the exit code is non-zero.
C13_UnsupportedDevice ==
    "caps" \in faults =>
        /\ unwinding
        /\ \A c \in {"S_FMT", "REQBUFS", "QUERYBUF", "mmap", "QBUF", "STREAMON"} :
              calls[c] = 0
        /\ pc \in {"close_device", "exited"}
        /\ Exited => (calls["close"] = 1 /\ ret # 0)

\* a device without a required capability, closed again
C13_Witness ==
    /\ Exited
    /\ "caps" \in faults
    /\ calls["QUERYCAP"] = 1
    /\ calls["close"] = 1
    /\ ~fdOpen

(* ---- C14 ---- *)
InterruptedStep == pc = "select" /\ last' = <<Call("select", -1, EINTR)>>

\* C14: a wait interrupted by a signal is resumed: the step goes back to
\* select, does not fail the run, issues no DQBUF and leaves the frame
\* counter and the safety counter unchanged, however often it happens.
C14_InterruptedWaitResumes ==
    [][InterruptedStep =>
          /\ pc' = "select"
          /\ unwinding' = unwinding
          /\ faults' = faults
          /\ calls'["DQBUF"] = calls["DQBUF"]
          /\ frames_received' = frames_received
          /\ dequeued' = dequeued
          /\ count' = count]_vars

\* the wait was interrupted, several times in a row, and goes on
C14_Witness ==
    /\ pc = "select"
    /\ last = <<Call("select", -1, EINTR)>>
    /\ calls["select"] >= 3
    /\ calls["DQBUF"] = 0
    /\ faults = {}

(* ---- C15 ---- *)
\* C15: STREAMON is issued only after mmap succeeded and right after the
\* initial QBUF succeeded; DQBUF is issued only after STREAMON succeeded;
\* after a failed initial QBUF, STREAMON is never issued.
C15_StreamOnOrder ==
    /\ calls["STREAMON"] <= 1
    /\ calls["STREAMON"] > 0 => (MmapSucceeded /\ calls["QBUF"] > 0
                                 /\ ~InitialQbufFailed)
    /\ \A i \in 1..Len(last) :
          last[i].call = "STREAMON" => (i > 1 /\ last[i - 1] = Sys("QBUF", 0))
    /\ calls["DQBUF"] > 0 => StreamOnSucceeded
    /\ InitialQbufFailed => calls["STREAMON"] = 0

\* the initial QBUF failed and the run is tearing down without STREAMON
C15_Witness ==
    /\ pc = "uninit_mmap"
    /\ InitialQbufFailed
    /\ MmapSucceeded
    /\ calls["STREAMON"] = 0

(* ---- C16 ---- *)
\* C16: when REQBUFS succeeds but grants no buffer, init_mmap fails and
\* neither QUERYBUF nor mmap nor STREAMON is issued.
C16_BufferNegotiation ==
    NoBufferGranted =>
        /\ unwinding
        /\ calls["QUERYBUF"] = 0
        /\ calls["mmap"] = 0
        /\ calls["STREAMON"] = 0

(* ---- C17 ---- *)
PersistReportedSuccess == calls["fopen"] = 1 /\ "fopen" \notin faults

\* C17: when the persist step reports success, frame.jpg holds exactly
\* bytesused bytes; a short write or a failed close of the file makes the
\* run fail.
C17_ExactBytesWritten ==
    /\ PersistReportedSuccess => fileBytes = bytesused
    /\ ("short_write" \in faults \/ "fclose" \in faults) =>
          (Exited => ret # 0)

(* ---- C18 ---- *)
\* C18: the safety counter changes only when main_loop is entered, from 70
\* to 69, and a run that has left the wait never comes back to it: the body
\* of the outer loop runs at most once.
C18_OuterLoopRunsOnce ==
    [][/\ count' # count => (pc = "main_loop" /\ count = LoopCount
                             /\ count' = LoopCount - 1)
       /\ InLoop(pc') => (InLoop(pc) \/ pc = "main_loop")
       /\ pc' = "main_loop" => pc = "start_capturing"]_vars

\* the loop was left after several waits with the counter decremented once
C18_Witness ==
    /\ pc = "stop_capturing"
    /\ calls["select"] >= 3
    /\ dequeued = 2
    /\ count = LoopCount - 1

(* ---- C19 ---- *)
\* C19: every QBUF is issued while the application owns buffer 0; the
\* number of QBUFs never exceeds the successful DQBUFs plus one;
\* start_capturing issues exactly one; and once the 5th frame is dequeued
\* the buffer is the application's for the rest of the run.
C19_OwnershipAlternates ==
    [][/\ \A i \in 1..Len(last') :
             last'[i].call = "QBUF" =>
                 OwnerAfter(owner, SubSeq(last', 1, i - 1)) = "app"
       /\ calls'["QBUF"] <= dequeued' + 1
       /\ pc = "start_capturing" => calls'["QBUF"] = 1
       /\ frames_received' = STORE_AFTER_X_FRAMES => owner' = "app"]_vars

\* the buffer is back with the driver after the third frame
C19_Witness ==
    /\ pc = "select"
    /\ owner = "driver"
    /\ dequeued = 3
    /\ calls["QBUF"] = 4

(* ---- C20 ---- *)
UsesMapping(log) == HasCall(log, "fwrite") \/ HasCall(log, "munmap")

\* C20: no step is taken after close_device was called or after open
\* failed, so no call reaches the released descriptor; the buffer is read
\* and unmapped only after mmap succeeded and before uninit_mmap was called.
C20_NoUseAfterRelease ==
    [][/\ calls["close"] = 0
       /\ "open" \notin faults
       /\ UsesMapping(last') => (MmapSucceeded /\ calls["munmap"] = 0)]_vars

\* a complete run: the buffer was read, unmapped, the descriptor closed
C20_Witness ==
    /\ Exited
    /\ calls["fwrite"] = 1
    /\ calls["munmap"] = 1
    /\ calls["close"] = 1
    /\ last = <<Sys("close", 0)>>
====
